---- MODULE Spec2Model ----
(***************************************************************************)
(* Session/message orchestration of the live sales assistant:              *)
(*   - useGeminiLive  (src/src/hooks/useGeminiLive.ts, lines 1-792)        *)
(*   - useMcpClient / useAudioState (src/unnamed/part_000)                 *)
(*   - mcpToolConverter (src/src/utils/mcpToolConverter.ts)                *)
(*   - Controls (src/src/components/Controls.tsx), which enables the       *)
(*     buttons that call into the hook.                                    *)
(* Every callback of the hook is one action; an async handler is cut at    *)
(* the awaits that yield to the event loop.                                *)
(***************************************************************************)
EXTENDS Integers, Sequences, FiniteSets, TLC

(* ------------------------------ bounds -------------------------------- *)
\* live connections attempted in one behaviour
MaxConns == 2
\* tool-call requests received in one behaviour
MaxBatches == 2
\* function calls carried by one tool-call request
MaxCalls == 2
\* pending "return to listening" timers
MaxTimers == 1
\* voice messages (speech fragments, manual messages) kept in the transcript
MaxVoiceMsgs == 2
\* audioData messages posted by a capture worklet and not yet handled
MaxFrames == 2
\* calls of mcpClient.connect in one behaviour
MaxConnects == 5
\* explicit calls of the gateway's connect and disconnect in one behaviour
MaxExplicit == 1
\* the output audio context's currentTime, in units of the shortest frame
MaxPlayTime == 3
\* entries of the playback history: frames scheduled and interruptions
MaxLog == 4
\* Date.now(), in milliseconds since the page loaded
MaxClock == 1

\* the most calls of sendMessage looked at
MaxSends == 2

\* useMcpClient: const maxRetries = 3
maxRetries == 3

ConnIds  == 1..MaxConns
BatchIds == 1..MaxBatches

Phases == {"IDLE", "LISTENING", "PROCESSING", "SPEAKING"}
Voices == {"Aoede", "Puck"}
DEFAULT_VOICE == "Aoede"

(* ------------------------- tool gateway: pure part -------------------- *)

\* What client.callTool can produce: a rejection, or a response object
\* described by the fields the converter inspects.
\*   content: -1 = no content field, otherwise the number of content items
\*   result : "absent" | "plain" | "witherror" (a result object that has an
\*            error field of its own)
Outcome(rej, nul, err, content, result, isErr) ==
  [rejects |-> rej, null |-> nul, error |-> err, content |-> content,
   result |-> result, isError |-> isErr]

CallToolOutcomes ==
  { Outcome(TRUE,  FALSE, FALSE, -1, "absent",    FALSE),   \* network failure
    Outcome(FALSE, TRUE,  FALSE, -1, "absent",    FALSE),   \* empty response
    Outcome(FALSE, FALSE, TRUE,  -1, "absent",    FALSE),   \* remote error
    Outcome(FALSE, FALSE, FALSE,  0, "absent",    FALSE),   \* content: []
    Outcome(FALSE, FALSE, FALSE,  1, "absent",    FALSE),   \* one content item
    Outcome(FALSE, FALSE, FALSE,  2, "absent",    FALSE),   \* two content items
    Outcome(FALSE, FALSE, FALSE,  1, "absent",    TRUE),    \* MCP isError result
    Outcome(FALSE, FALSE, FALSE, -1, "plain",     FALSE),   \* result field
    Outcome(FALSE, FALSE, FALSE, -1, "witherror", FALSE),   \* result with error
    Outcome(FALSE, FALSE, FALSE, -1, "absent",    FALSE) }  \* opaque object

\* A processed value handed to formatToolResponseForGemini.
Value(isArr, len, err) == [isArray |-> isArr, len |-> len, error |-> err]

\* The object built in executeToolCall's catch: {error: true, message, details}
ErrorValue == Value(FALSE, 0, TRUE)

\* processToolExecutionResponse: throws on an empty response and on
\* response.error; otherwise content, else result, else the response itself.
processToolExecutionResponse(o) ==
  IF o.null THEN [threw |-> TRUE, value |-> ErrorValue]
  ELSE IF o.error THEN [threw |-> TRUE, value |-> ErrorValue]
  ELSE IF o.content >= 0 THEN [threw |-> FALSE, value |-> Value(TRUE, o.content, FALSE)]
  ELSE IF o.result # "absent"
       THEN [threw |-> FALSE, value |-> Value(FALSE, 0, o.result = "witherror")]
  ELSE [threw |-> FALSE, value |-> Value(FALSE, 0, FALSE)]

\* formatToolResponseForGemini: the wrapper sent back for one function call.
formatToolResponseForGemini(toolName, toolId, v) ==
  IF v.isArray /\ v.len = 0
    THEN [id |-> toolId, name |-> toolName,
          response |-> [success |-> FALSE, isEmpty |-> TRUE, error |-> FALSE]]
  ELSE IF v.error
    THEN [id |-> toolId, name |-> toolName,
          response |-> [success |-> FALSE, isEmpty |-> FALSE, error |-> TRUE]]
  ELSE [id |-> toolId, name |-> toolName,
        response |-> [success |-> TRUE, isEmpty |-> FALSE, error |-> FALSE]]

NoResponse ==
  [id |-> 0, name |-> "", response |-> [success |-> FALSE, isEmpty |-> FALSE, error |-> FALSE]]

\* executeToolCall: throws when the gateway is not connected; every failure
\* of the call itself is caught and returned as an error-shaped response.
NotConnectedThrows(client, connected) == ~client \/ ~connected

executeToolCall_NoCatch(client, connected, fc, o) ==
  IF NotConnectedThrows(client, connected)
    THEN [threw |-> TRUE, value |-> NoResponse]
  ELSE LET p == processToolExecutionResponse(o) IN
       IF o.rejects \/ p.threw
         THEN [threw |-> TRUE, value |-> NoResponse]
         ELSE [threw |-> FALSE,
               value |-> formatToolResponseForGemini(fc.name, fc.id, p.value)]

executeToolCall(client, connected, fc, o) ==
  IF NotConnectedThrows(client, connected)
    THEN [threw |-> TRUE, value |-> NoResponse]
  ELSE IF o.rejects
    THEN [threw |-> FALSE,
          value |-> formatToolResponseForGemini(fc.name, fc.id, ErrorValue)]
  ELSE LET p == processToolExecutionResponse(o) IN
       IF p.threw
         THEN [threw |-> FALSE,
               value |-> formatToolResponseForGemini(fc.name, fc.id, ErrorValue)]
         ELSE [threw |-> FALSE,
               value |-> formatToolResponseForGemini(fc.name, fc.id, p.value)]


(* --------------------------- transcript text -------------------------- *)

\* A text is a tuple of characters, so that trim() is computed.
Texts == { <<>>, <<" ">>, <<"a">>, <<"a", "b">> }

RECURSIVE TrimLeft(_)
TrimLeft(s) ==
  IF s = <<>> THEN s
  ELSE IF Head(s) = " " THEN TrimLeft(Tail(s)) ELSE s

RECURSIVE TrimRight(_)
TrimRight(s) ==
  IF s = <<>> THEN s
  ELSE IF s[Len(s)] = " " THEN TrimRight(SubSeq(s, 1, Len(s) - 1)) ELSE s

\* String.prototype.trim
Trim(s) == TrimRight(TrimLeft(s))


(* ------------------------- tool result summaries ---------------------- *)

\* What formatToolResult inspects of its argument: whether it is falsy, an
\* array (its length and the truthy fields of its first item), an object
\* (its keys, in order) or anything else.
Shape(kind, len, first, keys) == [kind |-> kind, len |-> len, first |-> first, keys |-> keys]

\* the one-line summary: its wording, and the number or the names it shows
Summary(text, n, keys, more) == [text |-> text, n |-> n, keys |-> keys, more |-> more]

\* String.prototype.includes on the tool names of the model
NameIncludes(toolName, part) == toolName = "get" \o part

\* keys.slice(0, 3)
FirstThree(keys) == SubSeq(keys, 1, IF Len(keys) < 3 THEN Len(keys) ELSE 3)

formatToolResult(response, toolName) ==
  IF response.kind = "falsy" THEN Summary("Sin datos", 0, <<>>, FALSE)
  ELSE IF response.kind = "array" /\ response.len = 0
    THEN Summary("No se encontraron datos", 0, <<>>, FALSE)
  ELSE IF response.kind = "array"
    THEN IF NameIncludes(toolName, "SalesOrder") /\ "SalesOrder" \in response.first
           THEN Summary("Orden", 0, <<>>, FALSE)
         ELSE IF NameIncludes(toolName, "Customer") /\ "Customer" \in response.first
           THEN Summary("Cliente", 0, <<>>, FALSE)
         ELSE Summary("registro(s) encontrado(s)", response.len, <<>>, FALSE)
  ELSE IF response.kind = "object"
    THEN Summary("Datos", 0, FirstThree(response.keys), Len(response.keys) > 3)
  ELSE Summary("String", 0, <<>>, FALSE)

\* the keys of the response object formatToolResponseForGemini builds, in
\* the order it writes them
ResponseKeys(response) ==
  IF response.isEmpty THEN <<"success", "message", "data", "isEmpty">>
  ELSE IF response.error THEN <<"success", "message", "error", "data">>
  ELSE <<"success", "message", "data", "timestamp">>

\* mcpResponse.response as formatToolResult sees it: always that object
ResponseShape(response) == Shape("object", 0, {}, ResponseKeys(response))

(* ------------------------------- state -------------------------------- *)
VARIABLES
  aiClient,                 \* ai.current is initialised
  mcpClient,                \* useMcpClient: client state is non-null
  mcpIsConnected,           \* useMcpClient: isConnected state
  mcpError,                 \* useMcpClient: error state, "none" or the AppError type
  connectionAttempts,       \* useMcpClient: ref
  isConnecting,             \* useMcpClient: ref
  mcpConnecting,            \* an await mcpClient.connect is in flight
  listing,                  \* awaits of mcpClient.listTools in flight
  mcpRetryTimers,           \* pending setTimeout(() => connect(), 2000)
  mcpReconnectTimer,        \* the reconnection effect's 5 s timer is pending
  openClients,              \* clients that connected and were not closed
  connectCalls,             \* history: calls of mcpClient.connect so far
  explicitCalls,            \* history: explicit connect / disconnect calls
  everConnected,            \* history: some mcpClient.connect resolved
  currentState,             \* useAudioState: the phase
  session,                  \* session state: 0 = null, else the connection
  isConnected,
  error,                    \* "none" or the AppError type
  currentVoice,
  isProcessingTool,         \* ref
  isWebSocketOpen,          \* ref
  isSetupComplete,          \* ref
  lastInputTranscription,   \* ref
  lastOutputTranscription,  \* ref
  messages,                 \* the transcript
  conn,                     \* the transport of every live connection
  closure,                  \* what each startConversation call captured
  batch,                    \* the runs of the tool-call branch of onmessage
  listenTimers,             \* pending setTimeout(() => setState('LISTENING'))
  restartTimers,            \* pending setTimeout(() => startConversation())
  audioStage,               \* startAudioStreaming runs: 0 none, 1, 2 = await
  audioCtx,                 \* input/outputAudioContextRef are non-null
  mediaStream,              \* mediaStreamRef is non-null
  worklet,                  \* audioWorkletNodeRef: 0 = null, else its session
  exIn,                     \* a direct call of executeToolCall: its inputs
  exOut,                    \* ... and how it ended
  toolsResponse,            \* tool discovery: what mcpClient.listTools resolved to
  discovered,               \* ... and what processMcpToolsResponse made of it
  sends,                    \* history: the calls of sendMessage, in order
  frames,                   \* audioData messages posted by each worklet, not yet handled
  lastFrame,                \* the latest audioData message handled by port.onmessage
  endTrace,                 \* history: the steps of the latest endConversation call
  stops,                    \* history: stopAudioStreaming calls made by each session's callbacks
  fresh,                    \* history: the speakers not heard since the last turn-complete
  heard,                    \* history: the last fragment of each speaker added on each connection
  nextStartTime,            \* nextStartTimeRef: the next-start watermark
  outputSources,            \* outputSourcesRef: the scheduled playback sources
  now,                      \* outputAudioContext.currentTime
  playLog,                  \* history: frames scheduled and interruptions, in order
  clock                     \* Date.now()

hookVars  == <<aiClient, currentState, session, isConnected, error, currentVoice,
               isProcessingTool, isWebSocketOpen, isSetupComplete>>
textVars  == <<lastInputTranscription, lastOutputTranscription, messages>>
mcpVars   == <<mcpClient, mcpIsConnected, mcpError, connectionAttempts, isConnecting,
               mcpConnecting, listing, mcpRetryTimers, mcpReconnectTimer, openClients,
               connectCalls, explicitCalls, everConnected>>
connVars  == <<conn, closure>>
timerVars == <<listenTimers, restartTimers>>
audioVars == <<audioStage, audioCtx, mediaStream, worklet, nextStartTime, outputSources>>
execVars  == <<exIn, exOut, toolsResponse, discovered, sends>>
frameVars == <<frames, lastFrame, endTrace, stops>>
turnVars  == <<fresh, heard>>
playVars  == <<now, playLog, clock>>

vars == <<hookVars, textVars, mcpVars, connVars, batch, timerVars, audioVars, execVars,
          frameVars, turnVars, playVars>>

(* ------------------------------ messages ----------------------------- *)

\* the updater every setMessages call passes: prev => [...prev, message]
AppendMessage_Replaces(prev, message) == <<message>>

AppendMessage(prev, message) == Append(prev, message)

\* the id of a message created now: its prefix and Date.now()
MessageId(prefix) == <<prefix, clock>>

\* One ChatMessage: voice messages carry a text, tool messages a tool name.
\* The message of a speech fragment:
VoiceMessage(role, text) ==
  [id |-> MessageId(IF role = "user" THEN "input" ELSE "output"),
   role |-> role, type |-> "none", content |-> text, toolName |-> ""]

\* the message sendMessage adds: its id is Date.now().toString()
ManualMessage(text) ==
  [id |-> MessageId(""), role |-> "user", type |-> "none", content |-> text, toolName |-> ""]

ToolMessage(type, toolName) ==
  [id |-> MessageId(type), role |-> "system", type |-> type, content |-> <<>>,
   toolName |-> toolName]

\* the tool-result message: its content is the summary of mcpResponse.response
ToolResultMessage(toolName, response) ==
  [id |-> MessageId("tool-result"), role |-> "system", type |-> "tool-result",
   content |-> formatToolResult(ResponseShape(response), toolName), toolName |-> toolName]

(* function calls and requests the live session may send *)
ToolNameOf(i) == IF i % 2 = 1 THEN "getSalesOrder" ELSE "getCustomer"

\* the i-th function call of a request: ids are opaque and differ from the
\* position of the call in its request
FunctionCall(i) == [id |-> 100 + i, name |-> ToolNameOf(i)]

\* a tool-call request: one or more function calls with distinct ids
Requests == { [i \in 1..n |-> FunctionCall(i)] : n \in 1..MaxCalls }

NoBatch ==
  [st |-> "unused", conn |-> 0, calls |-> <<>>, idx |-> 0, responses |-> <<>>,
   sent |-> FALSE, sentOpen |-> FALSE]

\* the voice named by the config startConversation passes to live.connect:
\* the config carries responseModalities, systemInstruction and tools, and
\* no speechConfig, so the session speaks with the service's own voice
ConfigVoiceName == "unset"

NoClosure == [mcpConnected |-> FALSE, client |-> FALSE, session |-> 0, voice |-> "none"]

NoExec == [client |-> FALSE, connected |-> FALSE,
           fc |-> [id |-> 0, name |-> ""],
           outcome |-> Outcome(FALSE, FALSE, FALSE, -1, "absent", FALSE)]

\* useMcpClient after its mount effect ran: connect() was called once and
\* waits for mcpClient.connect
McpMounted ==
  /\ mcpClient = FALSE
  /\ mcpIsConnected = FALSE
  /\ mcpError = "none"
  /\ connectionAttempts = 1
  /\ isConnecting = TRUE
  /\ mcpConnecting = TRUE
  /\ listing = 0
  /\ mcpRetryTimers = 0
  /\ mcpReconnectTimer = FALSE
  /\ openClients = 0
  /\ connectCalls = 1
  /\ explicitCalls = 0
  /\ everConnected = FALSE

\* the two speakers of a conversation, as message roles
Speakers == {"user", "assistant"}

\* no audioData message handled yet
NoFrame == [conn |-> 0, stopped |-> FALSE, open |-> FALSE, threw |-> FALSE, message |-> <<>>]

\* no fragment of the speaker added yet
NotHeard == [any |-> FALSE, last |-> <<>>]

InitOrchestrator ==
  /\ aiClient \in BOOLEAN
  /\ McpMounted
  /\ currentState = "IDLE"
  /\ session = 0
  /\ isConnected = FALSE
  /\ error = IF aiClient THEN "none" ELSE "API"
  /\ currentVoice = DEFAULT_VOICE
  /\ isProcessingTool = FALSE
  /\ isWebSocketOpen = FALSE
  /\ isSetupComplete = FALSE
  /\ lastInputTranscription = <<>>
  /\ lastOutputTranscription = <<>>
  /\ messages = <<>>
  /\ conn = [c \in ConnIds |-> "none"]
  /\ closure = [c \in ConnIds |-> NoClosure]
  /\ batch = [b \in BatchIds |-> NoBatch]
  /\ listenTimers = 0
  /\ restartTimers = 0
  /\ audioStage = [c \in ConnIds |-> 0]
  /\ audioCtx = FALSE
  /\ mediaStream = FALSE
  /\ worklet = 0
  /\ frames = [c \in ConnIds |-> 0]
  /\ lastFrame = NoFrame
  /\ endTrace = <<>>
  /\ stops = [c \in ConnIds |-> 0]
  /\ fresh = Speakers
  /\ heard = [c \in ConnIds |-> [r \in Speakers |-> NotHeard]]
  /\ nextStartTime = 0
  /\ outputSources = {}
  /\ now = 0
  /\ playLog = <<>>
  /\ clock = 0
  /\ sends = <<>>

NoResult == [status |-> "idle", value |-> NoResponse]

\* no tool discovery looked at
NoDiscovery == [status |-> "idle", tools |-> <<>>]

Init ==
  /\ InitOrchestrator
  /\ exIn = NoExec
  /\ exOut = NoResult
  /\ toolsResponse = [kind |-> "undefined", tools |-> [kind |-> "undefined", items |-> <<>>]]
  /\ discovered = NoDiscovery


(* --------------------------- helper operators ------------------------- *)

\* the connection id the next live.connect call gets
FreeConns == { c \in ConnIds : conn[c] = "none" }
NextConn  == CHOOSE c \in FreeConns : \A d \in FreeConns : c <= d

FreeBatches == { b \in BatchIds : batch[b].st = "unused" }
NextBatch   == CHOOSE b \in FreeBatches : \A d \in FreeBatches : b <= d

VoiceCount == Cardinality({ i \in DOMAIN messages : messages[i].role # "system" })

\* stopAudioStreaming: drops every audio ref; a startAudioStreaming run that
\* is waiting at an await is not cancelled.
StopAudioStreaming_KeepsMicrophone ==
  /\ worklet' = 0
  /\ audioCtx' = FALSE
  /\ outputSources' = {}
  /\ nextStartTime' = 0
  /\ UNCHANGED <<mediaStream, audioStage>>

StopAudioStreaming ==
  /\ worklet' = 0
  /\ mediaStream' = FALSE
  /\ audioCtx' = FALSE
  /\ outputSources' = {}
  /\ nextStartTime' = 0
  /\ UNCHANGED audioStage

(* --------------------------- the MCP gateway -------------------------- *)

\* connect() up to its await. Its guard reads isConnected and client from
\* the closure of the first render (useCallback with no dependencies), where
\* they are false and null, so only isConnecting.current can skip the call.
\* setError(null) re-runs the reconnection effect, whose cleanup clears its
\* timer. pendingTimer: the reconnection timer when the call is skipped.
Connect(pendingTimer) ==
  IF isConnecting
    THEN /\ mcpReconnectTimer' = pendingTimer
         /\ UNCHANGED <<connectionAttempts, isConnecting, mcpError, mcpConnecting,
                        connectCalls>>
    ELSE /\ isConnecting' = TRUE
         /\ mcpError' = "none"
         /\ connectionAttempts' = connectionAttempts + 1
         /\ mcpConnecting' = TRUE
         /\ connectCalls' = connectCalls + 1
         /\ mcpReconnectTimer' = FALSE

\* the calls of mcpClient.connect are counted up to MaxConnects
MayConnect == isConnecting \/ connectCalls < MaxConnects

\* connect(): mcpClient.connect resolved; client and isConnected are set,
\* the attempts are reset and tool discovery starts.
McpConnected ==
  /\ mcpConnecting
  /\ mcpClient' = TRUE
  /\ mcpIsConnected' = TRUE
  /\ connectionAttempts' = 0
  /\ isConnecting' = FALSE
  /\ mcpConnecting' = FALSE
  /\ listing' = listing + 1
  /\ openClients' = openClients + 1
  /\ everConnected' = TRUE
  /\ UNCHANGED <<mcpError, mcpRetryTimers, mcpReconnectTimer, connectCalls, explicitCalls>>
  /\ UNCHANGED <<hookVars, textVars, connVars, batch, timerVars, audioVars, execVars,
                 frameVars, turnVars, playVars>>

\* the test of both the retry in connect's catch and the reconnection effect
RetryAllowed_OneMore == connectionAttempts <= maxRetries

RetryAllowed == connectionAttempts < maxRetries

\* connect(): mcpClient.connect rejected. The catch sets the CONNECTION
\* error, clears client and isConnected and arms the 2 s retry; the new
\* error re-runs the reconnection effect, which arms its 5 s timer.
McpConnectFails ==
  /\ mcpConnecting
  /\ mcpError' = "CONNECTION"
  /\ mcpIsConnected' = FALSE
  /\ mcpClient' = FALSE
  /\ isConnecting' = FALSE
  /\ mcpConnecting' = FALSE
  /\ mcpRetryTimers' = IF RetryAllowed THEN mcpRetryTimers + 1 ELSE mcpRetryTimers
  /\ mcpReconnectTimer' = RetryAllowed
  /\ UNCHANGED <<connectionAttempts, listing, openClients, connectCalls, explicitCalls,
                 everConnected>>
  /\ UNCHANGED <<hookVars, textVars, connVars, batch, timerVars, audioVars, execVars,
                 frameVars, turnVars, playVars>>

\* connect(): mcpClient.listTools settled. A failure sets a CONNECTION error
\* on the connected client, and the reconnection effect arms its timer.
McpToolsDiscovered(ok) ==
  /\ listing > 0
  /\ listing' = listing - 1
  /\ IF ok THEN UNCHANGED <<mcpError, mcpReconnectTimer>>
           ELSE /\ mcpError' = "CONNECTION"
                /\ mcpReconnectTimer' = RetryAllowed
  /\ UNCHANGED <<mcpClient, mcpIsConnected, connectionAttempts, isConnecting, mcpConnecting,
                 mcpRetryTimers, openClients, connectCalls, explicitCalls, everConnected>>
  /\ UNCHANGED <<hookVars, textVars, connVars, batch, timerVars, audioVars, execVars,
                 frameVars, turnVars, playVars>>

\* setTimeout(() => connect(), 2000) of connect's catch fires
McpRetryTimerFires ==
  /\ mcpRetryTimers > 0
  /\ MayConnect
  /\ mcpRetryTimers' = mcpRetryTimers - 1
  /\ Connect(mcpReconnectTimer)
  /\ UNCHANGED <<mcpClient, mcpIsConnected, listing, openClients, explicitCalls,
                 everConnected>>
  /\ UNCHANGED <<hookVars, textVars, connVars, batch, timerVars, audioVars, execVars,
                 frameVars, turnVars, playVars>>

\* the reconnection effect's 5 s timer fires. A 2 s retry timer armed by
\* the same failure fires before it.
McpReconnectTimerFires ==
  /\ mcpReconnectTimer
  /\ mcpRetryTimers = 0
  /\ MayConnect
  /\ Connect(FALSE)
  /\ UNCHANGED <<mcpClient, mcpIsConnected, listing, mcpRetryTimers, openClients,
                 explicitCalls, everConnected>>
  /\ UNCHANGED <<hookVars, textVars, connVars, batch, timerVars, audioVars, execVars,
                 frameVars, turnVars, playVars>>

\* connect() called by the application
McpExplicitConnect ==
  /\ explicitCalls < MaxExplicit
  /\ MayConnect
  /\ explicitCalls' = explicitCalls + 1
  /\ Connect(mcpReconnectTimer)
  /\ UNCHANGED <<mcpClient, mcpIsConnected, listing, mcpRetryTimers, openClients,
                 everConnected>>
  /\ UNCHANGED <<hookVars, textVars, connVars, batch, timerVars, audioVars, execVars,
                 frameVars, turnVars, playVars>>

\* disconnect() called by the application: closes the client held in the
\* state, clears the state and resets the attempts
McpDisconnect ==
  /\ explicitCalls < MaxExplicit
  /\ explicitCalls' = explicitCalls + 1
  /\ openClients' = IF mcpClient /\ mcpIsConnected THEN openClients - 1 ELSE openClients
  /\ mcpClient' = FALSE
  /\ mcpIsConnected' = FALSE
  /\ mcpError' = "none"
  /\ mcpReconnectTimer' = FALSE
  /\ connectionAttempts' = 0
  /\ UNCHANGED <<isConnecting, mcpConnecting, listing, mcpRetryTimers, connectCalls,
                 everConnected>>
  /\ UNCHANGED <<hookVars, textVars, connVars, batch, timerVars, audioVars, execVars,
                 frameVars, turnVars, playVars>>

\* The gateway alone: every connect and every tool discovery may fail.
NextMcp ==
  \/ McpConnected
  \/ McpConnectFails
  \/ \E ok \in BOOLEAN : McpToolsDiscovered(ok)
  \/ McpRetryTimerFires
  \/ McpReconnectTimerFires
  \/ McpExplicitConnect
  \/ McpDisconnect

SpecMcp == Init /\ [][NextMcp]_vars

(* --------------------------- startConversation ------------------------ *)

\* startConversation up to the await of live.connect. micGranted is the
\* outcome of the microphone permission request.
StartConversation(micGranted) ==
  IF ~aiClient THEN
    /\ error' = "API"
    /\ UNCHANGED <<aiClient, currentState, session, isConnected, currentVoice,
                   isProcessingTool, isWebSocketOpen, isSetupComplete,
                   textVars, connVars>>
  ELSE IF ~mcpIsConnected THEN
    /\ error' = "CONNECTION"
    /\ UNCHANGED <<aiClient, currentState, session, isConnected, currentVoice,
                   isProcessingTool, isWebSocketOpen, isSetupComplete,
                   textVars, connVars>>
  ELSE
    /\ currentState' = "IDLE"
    /\ lastInputTranscription' = <<>>
    /\ lastOutputTranscription' = <<>>
    /\ IF micGranted
         THEN /\ error' = "none"
              /\ conn' = [conn EXCEPT ![NextConn] = "connecting"]
              /\ closure' = [closure EXCEPT ![NextConn] =
                               [mcpConnected |-> mcpIsConnected, client |-> mcpClient,
                                session |-> session, voice |-> ConfigVoiceName]]
         ELSE /\ error' = "AUDIO"
              /\ UNCHANGED connVars
    /\ UNCHANGED <<aiClient, session, isConnected, currentVoice, isProcessingTool,
                   isWebSocketOpen, isSetupComplete, messages>>

\* the Start button, enabled by Controls while canStart
ClickStart(micGranted) ==
  /\ currentState = "IDLE" /\ ~isConnected
  /\ FreeConns # {}
  /\ StartConversation(micGranted)
  /\ UNCHANGED <<mcpVars, batch, timerVars, audioVars, execVars, frameVars, turnVars, playVars>>

\* setVoice's setTimeout(() => startConversation(), 1000)
RestartTimerFires(micGranted) ==
  /\ restartTimers > 0
  /\ FreeConns # {}
  /\ restartTimers' = restartTimers - 1
  /\ StartConversation(micGranted)
  /\ UNCHANGED <<mcpVars, batch, listenTimers, audioVars, execVars, frameVars, turnVars, playVars>>

\* the phase the catch of startConversation sets: setState('IDLE')
PhaseAfterConnectFailure_Unchanged == currentState

PhaseAfterConnectFailure == "IDLE"

\* live.connect rejects: the catch of startConversation
ConnectFails(c) ==
  /\ conn[c] = "connecting"
  /\ conn' = [conn EXCEPT ![c] = "failed"]
  /\ error' = "CONNECTION"
  /\ currentState' = PhaseAfterConnectFailure
  /\ UNCHANGED <<aiClient, session, isConnected, currentVoice, isProcessingTool,
                 isWebSocketOpen, isSetupComplete, closure,
                 textVars, mcpVars, batch, timerVars, audioVars, execVars, frameVars, turnVars, playVars>>

\* callbacks.onopen, then the rest of startConversation: setSession and the
\* start of startAudioStreaming up to its first await
OnOpen(c) ==
  /\ conn[c] = "connecting"
  /\ conn' = [conn EXCEPT ![c] = "open"]
  /\ isWebSocketOpen' = TRUE
  /\ isConnected' = TRUE
  /\ currentState' = "LISTENING"
  /\ session' = c
  /\ audioCtx' = TRUE
  /\ audioStage' = [audioStage EXCEPT ![c] = 1]
  /\ UNCHANGED <<aiClient, error, currentVoice, isProcessingTool, isSetupComplete,
                 closure, mediaStream, worklet, nextStartTime, outputSources,
                 textVars, mcpVars, batch, timerVars, execVars, frameVars, turnVars, playVars>>

\* startAudioStreaming: getUserMedia resolved
AudioStreamObtained(c) ==
  /\ audioStage[c] = 1
  /\ audioStage' = [audioStage EXCEPT ![c] = 2]
  /\ mediaStream' = TRUE
  /\ UNCHANGED <<audioCtx, worklet, nextStartTime, outputSources,
                 hookVars, textVars, mcpVars, connVars, batch, timerVars, execVars, frameVars, turnVars, playVars>>

\* startAudioStreaming: addModule resolved, the worklet node is connected
AudioWorkletStarted(c) ==
  /\ audioStage[c] = 2
  /\ audioStage' = [audioStage EXCEPT ![c] = 0]
  /\ worklet' = c
  /\ UNCHANGED <<audioCtx, mediaStream, nextStartTime, outputSources,
                 hookVars, textVars, mcpVars, connVars, batch, timerVars, execVars, frameVars, turnVars, playVars>>

\* startAudioStreaming: one of its awaits rejects
AudioStartFails(c) ==
  /\ audioStage[c] \in {1, 2}
  /\ audioStage' = [audioStage EXCEPT ![c] = 0]
  /\ error' = "AUDIO"
  /\ UNCHANGED <<audioCtx, mediaStream, worklet, nextStartTime, outputSources,
                 aiClient, currentState, session, isConnected, currentVoice,
                 isProcessingTool, isWebSocketOpen, isSetupComplete,
                 textVars, mcpVars, connVars, batch, timerVars, execVars, frameVars, turnVars, playVars>>

\* the capture worklet posts an audioData message to the main thread. It
\* does so while its node exists, the microphone stream is live and the
\* audio context is open (one conversation: the context is the one this
\* run of startAudioStreaming created).
WorkletPostsFrame(c) ==
  /\ worklet = c /\ mediaStream /\ audioCtx
  /\ frames[c] < MaxFrames
  /\ frames' = [frames EXCEPT ![c] = @ + 1]
  /\ UNCHANGED <<lastFrame, endTrace, stops, hookVars, textVars, mcpVars, connVars, batch,
                 timerVars, audioVars, execVars, turnVars, playVars>>

\* the messages of the errors liveSession.sendRealtimeInput may throw, word
\* by word; the empty one is an error without text
ThrownMessages ==
  { <<"WebSocket", "is", "already", "in", "CLOSING", "or", "CLOSED", "state">>,
    <<"socket", "CLOSED">>,
    <<"connection", "lost">>,
    <<"Connection", "refused">>,
    <<"Invalid", "argument">>,
    <<>> }

\* what liveSession.sendRealtimeInput does with a frame: it returns, or it
\* throws an error
SendOutcomes ==
  { [throws |-> FALSE, message |-> <<>>] }
    \cup { [throws |-> TRUE, message |-> w] : w \in ThrownMessages }

\* String.prototype.includes, for a word
Includes(message, word) == \E i \in DOMAIN message : message[i] = word

\* the test of the catch: the error says that the connection is gone
IndicatesClosed_OnlyClosed(message) == Includes(message, "CLOSED")

IndicatesClosed(message) ==
  \/ Includes(message, "CLOSING") \/ Includes(message, "CLOSED")
  \/ Includes(message, "connection") \/ Includes(message, "WebSocket")

\* audioWorkletNode.port.onmessage handles one posted audioData message:
\* it calls liveSession.sendRealtimeInput, and stops the pipeline when the
\* call throws with a closed-connection message. The send may throw before
\* onclose or onerror has told the hook that the transport is gone.
OnAudioData(c, out) ==
  /\ frames[c] > 0
  /\ frames' = [frames EXCEPT ![c] = @ - 1]
  /\ lastFrame' = [conn |-> c, stopped |-> worklet # c, open |-> conn[c] = "open",
                   threw |-> out.throws, message |-> out.message]
  /\ IF out.throws /\ IndicatesClosed(out.message)
       THEN StopAudioStreaming
       ELSE UNCHANGED audioVars
  /\ UNCHANGED <<endTrace, hookVars, textVars, mcpVars, connVars, batch, timerVars, execVars,
                 turnVars, playVars>>


(* ------------------------ onmessage: serverContent -------------------- *)

\* the serverContent messages the session may deliver without audio. audio
\* is the list of the inlineData parts of modelTurn, each given by the
\* duration of the buffer it decodes to
ServerContents ==
  { m \in [hasInput : BOOLEAN, input : Texts, hasOutput : BOOLEAN, output : Texts,
           turnComplete : BOOLEAN, interrupted : BOOLEAN, audio : {<<>>}] :
      /\ (~m.hasInput => m.input = <<>>)
      /\ (~m.hasOutput => m.output = <<>>) }

\* the durations of the audio parts; 0 is a part decodeAudioData throws on
Durations == {0, 1, 2}

\* the serverContent messages that carry audio, an interruption, or both
AudioContents ==
  { [hasInput |-> FALSE, input |-> <<>>, hasOutput |-> FALSE, output |-> <<>>,
     turnComplete |-> FALSE, interrupted |-> i, audio |-> a] :
      i \in BOOLEAN, a \in { <<>> } \cup { <<d>> : d \in Durations }
                              \cup { <<d, e>> : d \in {1, 2}, e \in {1, 2} } }

\* Math.max
Max(a, b) == IF a > b THEN a ELSE b

\* the time a frame is scheduled at: the watermark, or the current playback
\* time when the watermark lies behind it
StartTime_Now(watermark) == now

StartTime(watermark) == Max(watermark, now)

\* the sources the loop over the parts creates, in order, from watermark w;
\* a part that cannot be decoded creates none
RECURSIVE Scheduled(_, _)
Scheduled(w, parts) ==
  IF parts = <<>> THEN <<>>
  ELSE IF Head(parts) = 0 THEN Scheduled(StartTime(w), Tail(parts))
  ELSE <<[start |-> StartTime(w), end |-> StartTime(w) + Head(parts)]>>
         \o Scheduled(StartTime(w) + Head(parts), Tail(parts))

\* the watermark after that loop
RECURSIVE WatermarkAfter(_, _)
WatermarkAfter(w, parts) ==
  IF parts = <<>> THEN w
  ELSE WatermarkAfter(StartTime(w) + Head(parts), Tail(parts))

\* the watermark after an interruption
InterruptedWatermark_Kept(w) == w

InterruptedWatermark(w) == 0

\* the parts that are played: none without an output audio context
PlayedParts(m) == IF audioCtx THEN m.audio ELSE <<>>

Range(f) == { f[i] : i \in DOMAIN f }

\* the phase after the transcription branches
PhaseAfterContent_InterruptListens(m) ==
  IF m.interrupted THEN "LISTENING"
  ELSE IF m.hasOutput THEN "SPEAKING"
  ELSE IF m.hasInput THEN "LISTENING"
  ELSE currentState

PhaseAfterContent(m) ==
  IF m.hasOutput THEN "SPEAKING"
  ELSE IF m.hasInput THEN "LISTENING"
  ELSE currentState

\* the dedup-and-blank test of both transcription branches
AcceptsFragment_NoTrim(text, last) == text # last /\ Len(text) > 0

AcceptsFragment(text, last) == text # last /\ Len(Trim(text)) > 0

\* the speakers of whom m carries a non-empty fragment
HeardIn(m) ==
  {r \in {"user"} : m.hasInput /\ Len(Trim(m.input)) > 0}
    \cup {r \in {"assistant"} : m.hasOutput /\ Len(Trim(m.output)) > 0}

\* the turnComplete test
ArmsListenTimer_Never(m) == FALSE

ArmsListenTimer(m) == m.turnComplete /\ ~isProcessingTool

OnServerContent(c, m) ==
  LET addIn  == m.hasInput /\ AcceptsFragment(m.input, lastInputTranscription)
      addOut == m.hasOutput /\ AcceptsFragment(m.output, lastOutputTranscription)
      msgs1  == IF addIn THEN AppendMessage(messages, VoiceMessage("user", m.input))
                ELSE messages
      msgs2  == IF addOut THEN AppendMessage(msgs1, VoiceMessage("assistant", m.output))
                ELSE msgs1
  IN
  /\ conn[c] = "open"
  /\ Len(msgs2) - Len(messages) <= MaxVoiceMsgs - VoiceCount
  /\ ArmsListenTimer(m) => listenTimers < MaxTimers
  /\ lastInputTranscription' = IF addIn THEN m.input ELSE lastInputTranscription
  /\ lastOutputTranscription' = IF addOut THEN m.output ELSE lastOutputTranscription
  /\ messages' = msgs2
  /\ currentState' = PhaseAfterContent(m)
  /\ listenTimers' = IF ArmsListenTimer(m) THEN listenTimers + 1 ELSE listenTimers
  /\ outputSources' = IF m.interrupted THEN {}
                      ELSE outputSources \cup Range(Scheduled(nextStartTime, PlayedParts(m)))
  /\ nextStartTime' =
       IF m.interrupted
         THEN InterruptedWatermark(WatermarkAfter(nextStartTime, PlayedParts(m)))
         ELSE WatermarkAfter(nextStartTime, PlayedParts(m))
  /\ UNCHANGED <<aiClient, session, isConnected, error, currentVoice, isProcessingTool,
                 isWebSocketOpen, isSetupComplete, restartTimers,
                 audioStage, audioCtx, mediaStream, worklet, now, clock,
                 mcpVars, connVars, batch, execVars, frameVars>>

\* history of the playback, kept where a claim speaks of the schedule: the
\* frames the handler scheduled, each with the playback time it was
\* scheduled at, then the interruption when the message carries one
PlayEntry(kind, src, at) == [kind |-> kind, start |-> src.start, end |-> src.end, at |-> at]

RECURSIVE FrameEntries(_)
FrameEntries(srcs) ==
  IF srcs = <<>> THEN <<>>
  ELSE <<PlayEntry("frame", Head(srcs), now)>> \o FrameEntries(Tail(srcs))

NotesPlayback(m) ==
  LET entries == FrameEntries(Scheduled(nextStartTime, PlayedParts(m)))
                   \o (IF m.interrupted
                         THEN <<PlayEntry("interrupted", [start |-> 0, end |-> 0], now)>>
                         ELSE <<>>)
  IN /\ Len(playLog) + Len(entries) <= MaxLog
     /\ playLog' = playLog \o entries

\* the output audio context's clock advances
Tick ==
  /\ audioCtx
  /\ now < MaxPlayTime
  /\ now' = now + 1
  /\ UNCHANGED <<playLog, clock, hookVars, textVars, mcpVars, connVars, batch, timerVars,
                 audioVars, execVars, frameVars, turnVars>>

\* a millisecond passes
ClockTick ==
  /\ clock < MaxClock
  /\ clock' = clock + 1
  /\ UNCHANGED <<now, playLog, hookVars, textVars, mcpVars, connVars, batch, timerVars,
                 audioVars, execVars, frameVars, turnVars>>

\* the 'ended' listener of a source that played to its end
SourceEnded(src) ==
  /\ src \in outputSources
  /\ src.end <= now
  /\ outputSources' = outputSources \ {src}
  /\ UNCHANGED <<nextStartTime, audioStage, audioCtx, mediaStream, worklet,
                 hookVars, textVars, mcpVars, connVars, batch, timerVars,
                 execVars, frameVars, turnVars, playVars>>

\* history of the turns, kept where a claim speaks of utterances: a
\* turn-complete makes both speakers fresh, a non-empty fragment heard
\* after it ends that (the handler treats the fragments first)
NotesTurn(m) == fresh' = IF m.turnComplete THEN Speakers ELSE fresh \ HeardIn(m)

\* history of the fragments, kept where a claim speaks of the fragments of
\* one conversation: the text of the latest fragment of each speaker that
\* added a message, for every connection
FragmentOf(m, r) == IF r = "user" THEN m.input ELSE m.output

NotesHeard(c, m) ==
  LET added(r) == \E i \in (Len(messages) + 1)..Len(messages') : messages'[i].role = r
  IN heard' = [heard EXCEPT ![c] =
                 [r \in Speakers |-> IF added(r) THEN [any |-> TRUE, last |-> FragmentOf(m, r)]
                                     ELSE heard[c][r]]]

\* history of the stops, kept where a claim counts them: the calls of
\* stopAudioStreaming made by the callbacks of session c (onerror, onclose,
\* the catch of the worklet's port.onmessage)
NotesStop(c, called) == stops' = [stops EXCEPT ![c] = IF called THEN @ + 1 ELSE @]

\* setTimeout(() => setState('LISTENING'), 1000) fires
ListenTimerFires ==
  /\ listenTimers > 0
  /\ listenTimers' = listenTimers - 1
  /\ currentState' = "LISTENING"
  /\ UNCHANGED <<aiClient, session, isConnected, error, currentVoice, isProcessingTool,
                 isWebSocketOpen, isSetupComplete, restartTimers,
                 textVars, mcpVars, connVars, batch, audioVars, execVars, frameVars, turnVars, playVars>>

OnSetupComplete(c) ==
  /\ conn[c] = "open"
  /\ isSetupComplete' = TRUE
  /\ UNCHANGED <<aiClient, currentState, session, isConnected, error, currentVoice,
                 isProcessingTool, isWebSocketOpen,
                 textVars, mcpVars, connVars, batch, timerVars, audioVars, execVars, frameVars, turnVars, playVars>>

(* -------------------------- onmessage: toolCall ----------------------- *)

\* the guard of the tool-call branch, !liveSession || !mcpConnected:
\* liveSession is the connection the handler belongs to (never null inside
\* its own callbacks) and mcpConnected is the value the enclosing
\* startConversation call closed over
ToolGuardReturns_StaleSession(c) == closure[c].session = 0 \/ ~closure[c].mcpConnected

ToolGuardReturns(c) == ~closure[c].mcpConnected

\* the entry pushed after executeToolCall returned
TryPush_NoName(fc, mcpResponse) ==
  [id |-> fc.id, name |-> "", source |-> fc.name,
   result |-> mcpResponse.response, thrown |-> FALSE]

TryPush(fc, mcpResponse) ==
  [id |-> fc.id, name |-> fc.name, source |-> fc.name,
   result |-> mcpResponse.response, thrown |-> FALSE]

\* the entry pushed by the catch around executeToolCall
CatchPush(fc) ==
  [id |-> fc.id, name |-> fc.name, source |-> fc.name,
   result |-> [success |-> FALSE, isEmpty |-> FALSE, error |-> TRUE], thrown |-> TRUE]

FailureShaped(e) == e.thrown \/ ~e.result.success

\* one pass of the loop body after executeToolCall settled with r: exactly
\* one entry is pushed, by the try block or by its catch
AfterCall_DropsFailures(responses, fc, r) ==
  LET e == IF r.threw THEN CatchPush(fc) ELSE TryPush(fc, r.value)
  IN IF FailureShaped(e) THEN responses ELSE Append(responses, e)

AfterCall_CatchAfterPush(responses, fc, r) ==
  IF r.threw THEN Append(responses, CatchPush(fc))
  ELSE IF r.value.response.isEmpty
    THEN Append(Append(responses, TryPush(fc, r.value)), CatchPush(fc))
  ELSE Append(responses, TryPush(fc, r.value))

AfterCall(responses, fc, r) ==
  Append(responses, IF r.threw THEN CatchPush(fc) ELSE TryPush(fc, r.value))

\* a tool-call request arrives: the handler runs up to its first await
OnToolCall(c, req) ==
  /\ conn[c] = "open"
  /\ FreeBatches # {}
  /\ IF ToolGuardReturns(c)
       THEN /\ isProcessingTool' = FALSE
            /\ currentState' = "LISTENING"
            /\ batch' = [batch EXCEPT ![NextBatch] =
                           [NoBatch EXCEPT !.st = "dropped", !.conn = c, !.calls = req]]
            /\ UNCHANGED messages
       ELSE /\ isProcessingTool' = TRUE
            /\ currentState' = "PROCESSING"
            /\ batch' = [batch EXCEPT ![NextBatch] =
                           [NoBatch EXCEPT !.st = "running", !.conn = c, !.calls = req,
                                           !.idx = 1]]
            /\ messages' = AppendMessage(messages, ToolMessage("tool-start", req[1].name))
  /\ UNCHANGED <<aiClient, session, isConnected, error, currentVoice,
                 isWebSocketOpen, isSetupComplete,
                 lastInputTranscription, lastOutputTranscription,
                 mcpVars, connVars, timerVars, audioVars, execVars, frameVars, turnVars, playVars>>

\* the phase set at the end of the tool-call branch, after the batch was
\* handed to sendToolResponse: setState('LISTENING'), whatever the results
PhaseAfterBatch_IdleOnFailure(responses) ==
  IF \E i \in DOMAIN responses : FailureShaped(responses[i]) THEN "IDLE" ELSE "LISTENING"

PhaseAfterBatch(responses) == "LISTENING"

\* the loop goes from one function call to the next: the message of the
\* call that settled is appended, then the tool-start message of the next
NextPass_StartsAhead(msgs, note, nextCall) ==
  AppendMessage(AppendMessage(msgs, ToolMessage("tool-start", nextCall.name)), note)

NextPass(msgs, note, nextCall) ==
  AppendMessage(AppendMessage(msgs, note), ToolMessage("tool-start", nextCall.name))

\* executeToolCall settles for the current function call of batch b; the
\* handler runs on to its next await, or to its end when this was the last
\* call. sendThrows: sendToolResponse throws (possible on a transport that
\* is no longer open).
ToolCallSettles(b, o, sendThrows) ==
  LET B     == batch[b]
      c     == B.conn
      fc    == B.calls[B.idx]
      r     == executeToolCall(closure[c].client, closure[c].mcpConnected, fc, o)
      note  == IF r.threw THEN ToolMessage("tool-error", fc.name)
               ELSE ToolResultMessage(fc.name, r.value.response)
      last  == B.idx = Len(B.calls)
  IN
  /\ B.st = "running"
  /\ sendThrows => (last /\ conn[c] # "open")
  /\ IF ~last
       THEN /\ batch' = [batch EXCEPT ![b].responses = AfterCall(@, fc, r),
                                      ![b].idx = @ + 1]
            /\ messages' = NextPass(messages, note, B.calls[B.idx + 1])
            /\ UNCHANGED <<isProcessingTool, currentState, error>>
       ELSE /\ batch' = [batch EXCEPT ![b].responses = AfterCall(@, fc, r),
                                      ![b].st = "done",
                                      ![b].sent = TRUE,
                                      ![b].sentOpen = (conn[c] = "open")]
            /\ messages' = AppendMessage(messages, note)
            /\ error' = IF sendThrows THEN "TOOL" ELSE error
            /\ isProcessingTool' = FALSE
            /\ currentState' = PhaseAfterBatch(AfterCall(B.responses, fc, r))
  /\ UNCHANGED <<aiClient, session, isConnected, currentVoice,
                 isWebSocketOpen, isSetupComplete,
                 lastInputTranscription, lastOutputTranscription,
                 mcpVars, connVars, timerVars, audioVars, execVars, frameVars, turnVars, playVars>>

(* ------------------------ transport error / close --------------------- *)

OnError(c) ==
  /\ conn[c] = "open"
  /\ conn' = [conn EXCEPT ![c] = "errored"]
  /\ isWebSocketOpen' = FALSE
  /\ error' = "CONNECTION"
  /\ currentState' = "IDLE"
  /\ StopAudioStreaming
  /\ UNCHANGED <<aiClient, session, isConnected, currentVoice, isProcessingTool,
                 isSetupComplete, closure, frames, lastFrame, endTrace,
                 textVars, mcpVars, batch, timerVars, execVars, turnVars, playVars>>

OnClose(c) ==
  /\ conn[c] \in {"open", "errored", "closing"}
  /\ conn' = [conn EXCEPT ![c] = "closed"]
  /\ isWebSocketOpen' = FALSE
  /\ isConnected' = FALSE
  /\ currentState' = "IDLE"
  /\ StopAudioStreaming
  /\ UNCHANGED <<aiClient, session, error, currentVoice, isProcessingTool,
                 isSetupComplete, closure, frames, lastFrame, endTrace,
                 textVars, mcpVars, batch, timerVars, execVars, turnVars, playVars>>

(* ----------------- endConversation, sendMessage, setVoice ------------- *)

\* the calls endConversation makes, in the order it makes them: the
\* audioStreamEnd marker when a session exists and the socket is open (a
\* throw of the send is caught), stopAudioStreaming, session.close when a
\* session exists
EndSteps_CloseFirst(markerThrows) ==
  (IF session # 0 THEN <<"close">> ELSE <<>>)
    \o (IF session # 0 /\ isWebSocketOpen
          THEN <<IF markerThrows THEN "audioStreamEnd throws" ELSE "audioStreamEnd">>
          ELSE <<>>)
    \o <<"stopAudioStreaming">>

EndSteps(markerThrows) ==
  (IF session # 0 /\ isWebSocketOpen
     THEN <<IF markerThrows THEN "audioStreamEnd throws" ELSE "audioStreamEnd">>
     ELSE <<>>)
    \o <<"stopAudioStreaming">>
    \o (IF session # 0 THEN <<"close">> ELSE <<>>)

\* history of the calls of endConversation, kept where a claim speaks of
\* the order of its steps
NotesEnd(markerThrows) == endTrace' = EndSteps(markerThrows)

\* endConversation: signal the end of the audio stream (best effort), stop
\* the audio pipeline, close the session, reset the state
EndConversation ==
  /\ StopAudioStreaming
  /\ conn' = IF session # 0 /\ conn[session] \in {"open", "errored"}
               THEN [conn EXCEPT ![session] = "closing"]
               ELSE conn
  /\ session' = 0
  /\ isConnected' = FALSE
  /\ isWebSocketOpen' = FALSE
  /\ isSetupComplete' = FALSE
  /\ currentState' = "IDLE"
  /\ UNCHANGED <<aiClient, error, isProcessingTool, closure>>

\* the End button, enabled by Controls while canEnd
ClickEnd ==
  /\ isConnected
  /\ EndConversation
  /\ UNCHANGED <<currentVoice, textVars, mcpVars, batch, timerVars, execVars,
                 frames, lastFrame, stops, turnVars, playVars>>

\* the guard of sendMessage: if (!session || !isConnected) return
NotReady_SessionOnly == session = 0

NotReady == session = 0 \/ ~isConnected

\* sendMessage(message) of the hook, whoever calls it; sendThrows:
\* sendClientContent throws. sends notes each call: whether it passed the
\* guard and whether the turn went out to the transport
sendMessage(message, sendThrows) ==
  /\ Len(sends) < MaxSends
  /\ IF NotReady
       THEN /\ sends' = Append(sends, [ready |-> FALSE, sent |-> FALSE])
            /\ UNCHANGED <<messages, currentState, error>>
       ELSE /\ VoiceCount < MaxVoiceMsgs
            /\ sendThrows => conn[session] # "open"
            /\ sends' = Append(sends, [ready |-> TRUE, sent |-> ~sendThrows])
            /\ messages' = AppendMessage(messages, ManualMessage(message))
            /\ IF sendThrows
                 THEN error' = "API" /\ UNCHANGED currentState
                 ELSE currentState' = "PROCESSING" /\ UNCHANGED error
  /\ UNCHANGED <<aiClient, session, isConnected, currentVoice, isProcessingTool,
                 isWebSocketOpen, isSetupComplete,
                 lastInputTranscription, lastOutputTranscription,
                 exIn, exOut, toolsResponse, discovered,
                 mcpVars, connVars, batch, timerVars, audioVars, frameVars, turnVars, playVars>>

\* the Send form of Controls, enabled while canSendMessage; it passes the
\* trimmed text
SendMessage(text, sendThrows) ==
  /\ isConnected /\ Len(Trim(text)) > 0
  /\ session # 0
  /\ sendMessage(Trim(text), sendThrows)

\* the voice selector: setVoice(voice)
SetVoice(voice) ==
  /\ voice # currentVoice
  /\ currentVoice' = voice
  /\ IF isConnected
       THEN /\ restartTimers < MaxTimers
            /\ EndConversation
            /\ restartTimers' = restartTimers + 1
       ELSE /\ UNCHANGED <<aiClient, currentState, session, isConnected, error,
                           isProcessingTool, isWebSocketOpen, isSetupComplete,
                           connVars, audioVars, restartTimers>>
  /\ UNCHANGED <<listenTimers, textVars, mcpVars, batch, execVars,
                 frames, lastFrame, stops, turnVars, playVars>>

(* ------------------- executeToolCall called directly ------------------ *)

\* the states in which useMcpClient's executeToolCall can be called, and
\* what client.callTool does then
ExecInputs ==
  [client : BOOLEAN, connected : BOOLEAN,
   fc : { FunctionCall(i) : i \in 1..MaxCalls }, outcome : CallToolOutcomes]

ExecInit ==
  /\ InitOrchestrator
  /\ exIn \in ExecInputs
  /\ exOut = [status |-> "pending", value |-> NoResponse]
  /\ toolsResponse = [kind |-> "undefined", tools |-> [kind |-> "undefined", items |-> <<>>]]
  /\ discovered = NoDiscovery

ExecuteToolCallSettles ==
  /\ exOut.status = "pending"
  /\ LET r == executeToolCall(exIn.client, exIn.connected, exIn.fc, exIn.outcome)
     IN exOut' = [status |-> IF r.threw THEN "threw" ELSE "resolved", value |-> r.value]
  /\ UNCHANGED <<exIn, toolsResponse, discovered, sends, hookVars, textVars, mcpVars, connVars,
                 batch, timerVars, audioVars, frameVars, turnVars, playVars>>

SpecExec == ExecInit /\ [][ExecuteToolCallSettles]_vars

(* ---------------- tool discovery: processMcpToolsResponse ------------- *)

\* the longest tools array looked at
MaxTools == 3

\* JavaScript values, as far as validateMcpTool looks at them
Undefined == [kind |-> "undefined", value |-> ""]
Number7   == [kind |-> "number", value |-> "7"]
Str(text) == [kind |-> "string", value |-> text]

\* typeof: null is an object too
Typeof(v) == IF v.kind \in {"null", "array"} THEN "object" ELSE v.kind

JsonSchema == [kind |-> "object", type |-> Str("object")]

\* an entry of the tools array as an MCP server sends it
ToolEntry(name) ==
  [kind |-> "object", name |-> Str(name), description |-> Str("d"),
   inputSchema |-> JsonSchema, title |-> Undefined]

\* a null and a string where an entry should be
NullEntry   == [ToolEntry("") EXCEPT !.kind = "null", !.name = Undefined,
                                    !.description = Undefined,
                                    !.inputSchema = [kind |-> "undefined", type |-> Undefined]]
StringEntry == [NullEntry EXCEPT !.kind = "string"]

ListedEntries ==
  { ToolEntry("a"), ToolEntry("b"), ToolEntry(""),
    [ToolEntry("a") EXCEPT !.title = Str("A")],
    NullEntry, StringEntry,
    [ToolEntry("a") EXCEPT !.name = Undefined],
    [ToolEntry("b") EXCEPT !.description = Number7],
    [ToolEntry("a") EXCEPT !.inputSchema = [kind |-> "null", type |-> Undefined]],
    [ToolEntry("b") EXCEPT !.inputSchema.type = Undefined] }

ToolLists == UNION { [1..n -> ListedEntries] : n \in 0..MaxTools }

\* what listTools can resolve to: null, an object without tools, an object
\* whose tools is no array, an object with a tools array
ToolsResponses ==
  { [kind |-> "null", tools |-> [kind |-> "undefined", items |-> <<>>]],
    [kind |-> "object", tools |-> [kind |-> "undefined", items |-> <<>>]],
    [kind |-> "object", tools |-> [kind |-> "string", items |-> <<>>]] }
  \cup { [kind |-> "object", tools |-> [kind |-> "array", items |-> l]] : l \in ToolLists }

validateMcpTool_AnyObject(tool) ==
  /\ Typeof(tool) = "object"
  /\ tool.kind # "null"

validateMcpTool(tool) ==
  /\ Typeof(tool) = "object"
  /\ tool.kind # "null"
  /\ Typeof(tool.name) = "string"
  /\ Typeof(tool.description) = "string"
  /\ Typeof(tool.inputSchema) = "object"
  /\ tool.inputSchema.kind # "null"
  /\ Typeof(tool.inputSchema.type) = "string"

\* the object the map callback builds
McpTool(tool) ==
  [name |-> tool.name, description |-> tool.description, inputSchema |-> tool.inputSchema]

processMcpToolsResponse(response) ==
  IF response.kind \in {"null", "undefined"} \/ response.tools.kind # "array"
    THEN <<>>
    ELSE LET valid == SelectSeq(response.tools.items, validateMcpTool)
         IN [i \in 1..Len(valid) |-> McpTool(valid[i])]

DiscoveryInit ==
  /\ InitOrchestrator
  /\ exIn = NoExec
  /\ exOut = NoResult
  /\ toolsResponse \in ToolsResponses
  /\ discovered = [status |-> "pending", tools |-> <<>>]

\* const tools = processMcpToolsResponse(toolsResponse)
DiscoverTools ==
  /\ discovered.status = "pending"
  /\ discovered' = [status |-> "returned", tools |-> processMcpToolsResponse(toolsResponse)]
  /\ UNCHANGED <<exIn, exOut, toolsResponse, sends, hookVars, textVars, mcpVars, connVars,
                 batch, timerVars, audioVars, frameVars, turnVars, playVars>>

SpecDiscovery == DiscoveryInit /\ [][DiscoverTools]_vars

(* ------------------------------ behaviours ---------------------------- *)

\* the text of the speech fragments where the wording does not matter
SpokenText == <<"a">>

SpokenContents ==
  { m \in ServerContents : /\ m.hasInput => m.input = SpokenText
                           /\ m.hasOutput => m.output = SpokenText }

TurnSignals == { m \in ServerContents : ~m.hasInput /\ ~m.hasOutput }

NoConnectionYet == \A c \in ConnIds : conn[c] = "none"
NoRequestYet    == \A b \in BatchIds : batch[b].st = "unused"

\* One conversation, one tool-call request: the user starts once; the session
\* delivers speech, turn signals and a single tool-call request.
Next ==
  \/ McpConnected
  \/ \E g \in BOOLEAN : NoConnectionYet /\ ClickStart(g)
  \/ \E c \in ConnIds : ConnectFails(c)
  \/ \E c \in ConnIds : OnOpen(c)
  \/ \E c \in ConnIds : AudioStreamObtained(c)
  \/ \E c \in ConnIds : AudioWorkletStarted(c)
  \/ \E c \in ConnIds : AudioStartFails(c)
  \/ \E c \in ConnIds, m \in SpokenContents : OnServerContent(c, m) /\ UNCHANGED <<fresh, playLog, heard>>
  \/ ListenTimerFires
  \/ \E c \in ConnIds, req \in Requests : NoRequestYet /\ OnToolCall(c, req)
  \/ \E b \in BatchIds, o \in CallToolOutcomes, t \in BOOLEAN : ToolCallSettles(b, o, t)
  \/ \E c \in ConnIds : OnError(c) /\ UNCHANGED stops
  \/ \E c \in ConnIds : OnClose(c) /\ UNCHANGED stops
  \/ ClickEnd /\ UNCHANGED endTrace

Spec == Init /\ [][Next]_vars

\* The tool-call branch alone: one conversation, one tool-call request, and
\* the transport failing or the user ending the conversation at any time.
NextTools ==
  \/ McpConnected
  \/ NoConnectionYet /\ ClickStart(TRUE)
  \/ \E c \in ConnIds : OnOpen(c)
  \/ \E c \in ConnIds, req \in Requests : NoRequestYet /\ OnToolCall(c, req)
  \/ \E b \in BatchIds, o \in CallToolOutcomes, t \in BOOLEAN : ToolCallSettles(b, o, t)
  \/ \E c \in ConnIds : OnError(c) /\ UNCHANGED stops
  \/ \E c \in ConnIds : OnClose(c) /\ UNCHANGED stops
  \/ ClickEnd /\ UNCHANGED endTrace

SpecTools == Init /\ [][NextTools]_vars

\* every handler that is waiting for executeToolCall is resumed
FairTools ==
  SpecTools /\ \A b \in BatchIds :
                 WF_vars(\E o \in CallToolOutcomes, t \in BOOLEAN : ToolCallSettles(b, o, t))

\* Overlapping tool-call requests in one conversation, with turn-complete
\* signals and their timers.
NextOverlap ==
  \/ McpConnected
  \/ NoConnectionYet /\ ClickStart(TRUE)
  \/ \E c \in ConnIds : OnOpen(c)
  \/ \E c \in ConnIds, m \in TurnSignals : OnServerContent(c, m) /\ UNCHANGED <<fresh, playLog, heard>>
  \/ ListenTimerFires
  \/ \E c \in ConnIds, req \in Requests : OnToolCall(c, req)
  \/ \E b \in BatchIds, o \in CallToolOutcomes, t \in BOOLEAN : ToolCallSettles(b, o, t)
  \/ \E c \in ConnIds : OnClose(c) /\ UNCHANGED stops
  \/ ClickEnd /\ UNCHANGED endTrace

SpecOverlap == Init /\ [][NextOverlap]_vars

\* Several conversations: the Start and End buttons, the voice selector and
\* the transport, without tool calls.
NextSessions ==
  \/ McpConnected
  \/ \E g \in BOOLEAN : ClickStart(g)
  \/ \E g \in BOOLEAN : RestartTimerFires(g)
  \/ \E v \in Voices : SetVoice(v) /\ UNCHANGED endTrace
  \/ \E c \in ConnIds : ConnectFails(c)
  \/ \E c \in ConnIds : OnOpen(c)
  \/ \E c \in ConnIds : AudioStreamObtained(c)
  \/ \E c \in ConnIds : AudioWorkletStarted(c)
  \/ \E c \in ConnIds : AudioStartFails(c)
  \/ \E c \in ConnIds : OnSetupComplete(c)
  \/ \E c \in ConnIds : OnError(c) /\ UNCHANGED stops
  \/ \E c \in ConnIds : OnClose(c) /\ UNCHANGED stops
  \/ ClickEnd /\ UNCHANGED endTrace

SpecSessions == Init /\ [][NextSessions]_vars

\* The capture path of one conversation: the pipeline starts, the worklet
\* posts frames, and the transport fails or the user ends at any time.
NextAudio ==
  \/ McpConnected
  \/ NoConnectionYet /\ ClickStart(TRUE)
  \/ \E c \in ConnIds : OnOpen(c)
  \/ \E c \in ConnIds : AudioStreamObtained(c)
  \/ \E c \in ConnIds : AudioWorkletStarted(c)
  \/ \E c \in ConnIds : AudioStartFails(c)
  \/ \E c \in ConnIds : WorkletPostsFrame(c)
  \/ \E c \in ConnIds, out \in SendOutcomes : OnAudioData(c, out) /\ UNCHANGED stops
  \/ \E c \in ConnIds : OnError(c) /\ UNCHANGED stops
  \/ \E c \in ConnIds : OnClose(c) /\ UNCHANGED stops
  \/ ClickEnd /\ UNCHANGED endTrace

SpecAudio == Init /\ [][NextAudio]_vars

\* The transcript of one conversation: speech fragments of any text, turn
\* signals and their timers, with the history of the turns.
NextTranscript ==
  \/ McpConnected
  \/ NoConnectionYet /\ ClickStart(TRUE)
  \/ \E c \in ConnIds : OnOpen(c)
  \/ \E c \in ConnIds, m \in ServerContents : OnServerContent(c, m) /\ NotesTurn(m) /\ UNCHANGED <<playLog, heard>>
  \/ ListenTimerFires
  \/ \E c \in ConnIds : OnClose(c) /\ UNCHANGED stops

SpecTranscript == Init /\ [][NextTranscript]_vars

\* Ending a conversation: one conversation started by the user, ended by
\* the End button or by a change of voice (which restarts it), with the
\* transport failing at any time, and the history of endConversation's steps.
NextEnd ==
  \/ McpConnected
  \/ NoConnectionYet /\ ClickStart(TRUE)
  \/ RestartTimerFires(TRUE)
  \/ \E c \in ConnIds : OnOpen(c)
  \/ \E c \in ConnIds : AudioStreamObtained(c)
  \/ \E c \in ConnIds : AudioWorkletStarted(c)
  \/ \E c \in ConnIds : OnSetupComplete(c)
  \/ \E c \in ConnIds : OnError(c) /\ UNCHANGED stops
  \/ \E c \in ConnIds : OnClose(c) /\ UNCHANGED stops
  \/ \E t \in BOOLEAN : ClickEnd /\ NotesEnd(t)
  \/ \E v \in Voices, t \in BOOLEAN :
       SetVoice(v) /\ (IF isConnected THEN NotesEnd(t) ELSE UNCHANGED endTrace)

SpecEnd == Init /\ [][NextEnd]_vars

\* The playback of one conversation: the session delivers audio parts and
\* interruptions while the clock of the output context runs, and the
\* transport may close at any time; with the history of the schedule.
NextPlayback ==
  \/ McpConnected
  \/ NoConnectionYet /\ ClickStart(TRUE)
  \/ \E c \in ConnIds : OnOpen(c)
  \/ \E c \in ConnIds, m \in AudioContents :
       OnServerContent(c, m) /\ NotesPlayback(m) /\ UNCHANGED <<fresh, heard>>
  \/ Tick
  \/ \E src \in outputSources : SourceEnded(src)
  \/ \E c \in ConnIds : OnClose(c) /\ UNCHANGED stops

SpecPlayback == Init /\ [][NextPlayback]_vars

\* Interruptions in a conversation: the model speaks, turns complete, and
\* the session delivers audio parts and interruptions, the clock standing.
NextInterrupt ==
  \/ McpConnected
  \/ NoConnectionYet /\ ClickStart(TRUE)
  \/ \E c \in ConnIds : OnOpen(c)
  \/ \E c \in ConnIds, m \in SpokenContents :
       OnServerContent(c, m) /\ UNCHANGED <<fresh, playLog, heard>>
  \/ \E c \in ConnIds, m \in AudioContents :
       OnServerContent(c, m) /\ NotesPlayback(m) /\ UNCHANGED <<fresh, heard>>
  \/ ListenTimerFires
  \/ \E c \in ConnIds : OnClose(c) /\ UNCHANGED stops

SpecInterrupt == Init /\ [][NextInterrupt]_vars

\* Starting and restarting while the gateway may fail: the Start and End
\* buttons, the voice selector and its restart timer, turn-complete signals
\* and their timers, and a gateway whose connects and tool discoveries fail.
NextRestart ==
  \/ McpConnected
  \/ McpConnectFails
  \/ \E ok \in BOOLEAN : McpToolsDiscovered(ok)
  \/ McpRetryTimerFires
  \/ McpReconnectTimerFires
  \/ \E g \in BOOLEAN : ClickStart(g)
  \/ \E g \in BOOLEAN : RestartTimerFires(g)
  \/ \E v \in Voices : SetVoice(v) /\ UNCHANGED endTrace
  \/ \E c \in ConnIds : OnOpen(c)
  \/ \E c \in ConnIds, m \in TurnSignals :
       OnServerContent(c, m) /\ UNCHANGED <<fresh, playLog, heard>>
  \/ ListenTimerFires
  \/ \E c \in ConnIds : OnClose(c) /\ UNCHANGED stops
  \/ ClickEnd /\ UNCHANGED endTrace

SpecRestart == Init /\ [][NextRestart]_vars


\* the messages that carry one speech fragment and nothing else
SpeechFragments ==
  { m \in ServerContents :
      /\ m.hasInput # m.hasOutput
      /\ ~m.turnComplete /\ ~m.interrupted }

\* The transcript of one conversation with everything that writes to it:
\* speech fragments, one tool-call request, manual messages, while the
\* clock runs.
NextIds ==
  \/ McpConnected
  \/ NoConnectionYet /\ ClickStart(TRUE)
  \/ \E c \in ConnIds : OnOpen(c)
  \/ \E c \in ConnIds, m \in SpeechFragments :
       OnServerContent(c, m) /\ UNCHANGED <<fresh, playLog, heard>>
  \/ \E c \in ConnIds, req \in Requests : NoRequestYet /\ OnToolCall(c, req)
  \/ \E b \in BatchIds, o \in CallToolOutcomes : ToolCallSettles(b, o, FALSE)
  \/ \E text \in Texts : SendMessage(text, FALSE)
  \/ ClockTick

SpecIds == Init /\ [][NextIds]_vars

\* Conversations one after the other and side by side: the Start and End
\* buttons, speech fragments of any text on every open connection, the
\* transport closing at any time, with the history of the fragments.
NextDedup ==
  \/ McpConnected
  \/ ClickStart(TRUE)
  \/ \E c \in ConnIds : OnOpen(c)
  \/ \E c \in ConnIds, m \in SpeechFragments :
       OnServerContent(c, m) /\ NotesHeard(c, m) /\ UNCHANGED <<fresh, playLog>>
  \/ \E c \in ConnIds : OnClose(c) /\ UNCHANGED stops
  \/ ClickEnd /\ UNCHANGED endTrace

SpecDedup == Init /\ [][NextDedup]_vars

\* The transport failing under one conversation that nobody ends: the
\* microphone streams, sends may throw, and the transport reports an error,
\* a close, or an error and then a close, with the history of the stops.
NextFailure ==
  \/ McpConnected
  \/ NoConnectionYet /\ ClickStart(TRUE)
  \/ \E c \in ConnIds : OnOpen(c)
  \/ \E c \in ConnIds : AudioStreamObtained(c)
  \/ \E c \in ConnIds : AudioWorkletStarted(c)
  \/ \E c \in ConnIds : WorkletPostsFrame(c)
  \/ \E c \in ConnIds, out \in SendOutcomes :
       OnAudioData(c, out) /\ NotesStop(c, out.throws /\ IndicatesClosed(out.message))
  \/ \E c \in ConnIds : OnError(c) /\ NotesStop(c, TRUE)
  \/ \E c \in ConnIds : OnClose(c) /\ NotesStop(c, TRUE)

SpecFailure == Init /\ [][NextFailure]_vars

\* Everything that touches the transcript or runs while it is shown: a
\* conversation and its restart after a change of voice, with speech
\* fragments, one tool-call request and typed messages, the End button, and
\* the transport closing or failing at any time.
PlainOutcomes ==
  { o \in CallToolOutcomes : o.rejects \/ (o.content = 1 /\ ~o.isError) }

NextHistory ==
  \/ McpConnected
  \/ NoConnectionYet /\ ClickStart(TRUE)
  \/ RestartTimerFires(TRUE)
  \/ \E v \in Voices : SetVoice(v) /\ UNCHANGED endTrace
  \/ \E c \in ConnIds : OnOpen(c)
  \/ \E c \in ConnIds, m \in SpokenContents \cap SpeechFragments :
       OnServerContent(c, m) /\ UNCHANGED <<fresh, playLog, heard>>
  \/ \E c \in ConnIds : NoRequestYet /\ OnToolCall(c, <<FunctionCall(1)>>)
  \/ \E b \in BatchIds, o \in PlainOutcomes : ToolCallSettles(b, o, FALSE)
  \/ \E t \in BOOLEAN : SendMessage(SpokenText, t)
  \/ \E c \in ConnIds : OnError(c) /\ UNCHANGED stops
  \/ \E c \in ConnIds : OnClose(c) /\ UNCHANGED stops
  \/ ClickEnd /\ UNCHANGED endTrace

SpecHistory == Init /\ [][NextHistory]_vars

\* sendMessage called at any time, with any text: before a conversation,
\* while the session is being opened, during it, and after the End button
\* or a transport close or error.
NextSend ==
  \/ McpConnected
  \/ NoConnectionYet /\ ClickStart(TRUE)
  \/ \E c \in ConnIds : OnOpen(c)
  \/ \E text \in Texts, t \in BOOLEAN : sendMessage(text, t)
  \/ \E c \in ConnIds : OnError(c) /\ UNCHANGED stops
  \/ \E c \in ConnIds : OnClose(c) /\ UNCHANGED stops
  \/ ClickEnd /\ UNCHANGED endTrace

SpecSend == Init /\ [][NextSend]_vars

(* ------------------------------- claims ------------------------------- *)

\* the invocation of a function call fails: callTool rejects, or the
\* response is one processToolExecutionResponse throws on
InvocationThrows(o) == o.rejects \/ processToolExecutionResponse(o).threw

BatchInFlight == \E b \in BatchIds : batch[b].st = "running"

\* C1: every batch passed to sendToolResponse has as many results as its
\* request has function calls, exactly one per requested function-call id,
\* whatever mix of invocations succeeded or failed.
C1_OneResultPerCall ==
  \A b \in BatchIds :
    batch[b].sent =>
      /\ Len(batch[b].responses) = Len(batch[b].calls)
      /\ \A i \in DOMAIN batch[b].calls :
           Cardinality({ j \in DOMAIN batch[b].responses :
                           batch[b].responses[j].id = batch[b].calls[i].id }) = 1

\* a forwarded batch of two or more results that mixes a failure and a success
C1_Witness ==
  \E b \in BatchIds :
    /\ batch[b].sent
    /\ Len(batch[b].calls) >= 2
    /\ \E i, j \in DOMAIN batch[b].responses :
         /\ FailureShaped(batch[b].responses[i])
         /\ ~FailureShaped(batch[b].responses[j])

\* C2: every tool-call request received on an open session is eventually
\* followed by a sendToolResponse call for it, provided every executeToolCall
\* settles.
C2_EveryRequestAnswered ==
  \A b \in BatchIds : (batch[b].st # "unused") ~> batch[b].sent

\* a request was answered although its session was no longer open
C2_Witness ==
  \E b \in BatchIds : batch[b].sent /\ ~batch[b].sentOpen

\* C3: sendToolResponse is never called with an empty functionResponses list.
C3_NeverEmptyBatch ==
  \A b \in BatchIds : batch[b].sent => Len(batch[b].responses) > 0

\* a forwarded batch all of whose invocations failed
C3_Witness ==
  \E b \in BatchIds :
    /\ batch[b].sent
    /\ batch[b].calls # <<>>
    /\ \A i \in DOMAIN batch[b].responses : FailureShaped(batch[b].responses[i])

\* C4: each time an invocation settles, one result is added that carries the
\* id and the name of the function call it answers and that is failure-shaped
\* when the invocation threw; the batch forwarded at the end answers the
\* function calls of the request one by one.
C4_ResultAnswersItsCall ==
  [][ \A b \in BatchIds, o \in CallToolOutcomes, t \in BOOLEAN :
        ToolCallSettles(b, o, t) =>
          LET fc == batch[b].calls[batch[b].idx]
              rs == batch'[b].responses
              e  == rs[Len(rs)]
          IN /\ Len(rs) = Len(batch[b].responses) + 1
             /\ SubSeq(rs, 1, Len(rs) - 1) = batch[b].responses
             /\ e.id = fc.id /\ e.name = fc.name
             /\ InvocationThrows(o) => (FailureShaped(e) /\ e.id = fc.id)
             /\ batch'[b].sent =>
                  \A i \in DOMAIN rs : /\ rs[i].id = batch[b].calls[i].id
                                       /\ rs[i].name = batch[b].calls[i].name
    ]_vars

\* a forwarded batch holding the error result of an invocation that threw,
\* under the id of its function call
C4_Witness ==
  \E b \in BatchIds :
    /\ batch[b].sent
    /\ \E i \in DOMAIN batch[b].responses :
         /\ batch[b].responses[i].result.error
         /\ batch[b].responses[i].id = batch[b].calls[i].id

C6_TurnCompleteDeferred ==
  [][ \A c \in ConnIds, m \in TurnSignals :
        (m.turnComplete /\ BatchInFlight /\ OnServerContent(c, m)) =>
          (listenTimers' = listenTimers /\ currentState' = currentState)
    ]_vars

\* C7: once the transport closed or failed, or the conversation was ended,
\* and no connection is open or being opened, the phase is IDLE.
SessionEnded ==
  /\ \E c \in ConnIds : conn[c] \in {"errored", "closing", "closed"}
  /\ \A c \in ConnIds : conn[c] \notin {"connecting", "open"}

C7_IdleUntilRestart == SessionEnded => currentState = "IDLE"

\* C8: a transport close or a transport error, in whatever phase, moves the
\* phase to IDLE and stops the audio pipeline.
C8_CloseMovesToIdle ==
  [][ \A c \in ConnIds :
        (OnClose(c) \/ OnError(c)) =>
          (currentState' = "IDLE" /\ worklet' = 0 /\ ~mediaStream' /\ ~audioCtx')
    ]_vars

\* the transport closed after startAudioStreaming had run to its end, after
\* the model had spoken and while a tool batch was in flight
C8_Witness ==
  \E c \in ConnIds :
    /\ conn[c] = "closed"
    /\ audioStage[c] = 0 /\ error # "AUDIO"
    /\ BatchInFlight
    /\ lastOutputTranscription # <<>>
    /\ currentState = "IDLE" /\ worklet = 0 /\ ~mediaStream /\ ~audioCtx

\* C9: at most one live session is open at any time.
C9_AtMostOneOpen == Cardinality({ c \in ConnIds : conn[c] = "open" }) <= 1

\* C10: sendToolResponse is never called on a session that is no longer open.
C10_NoSendAfterClose ==
  \A b \in BatchIds : batch[b].sent => batch[b].sentOpen

\* C11: every captured frame handed to sendRealtimeInput finds the audio
\* pipeline running and the transport open; a frame still in flight when the
\* pipeline was stopped is not sent.
C11_NoFrameAfterStop ==
  lastFrame.conn # 0 => (~lastFrame.stopped /\ lastFrame.open)

\* the voice messages of one speaker in a transcript
OfRole(msgs, r) == SelectSeq(msgs, LAMBDA x : x.role = r)

\* C12: a non-empty user fragment that arrives while the user's utterance
\* is open (the user was already heard since the last turn-complete) adds
\* no message: the transcript keeps its number of user messages and the
\* last of them carries the fragment.
C12_FragmentsUpdateInPlace ==
  [][ \A c \in ConnIds, m \in ServerContents :
        (OnServerContent(c, m) /\ "user" \in HeardIn(m) /\ "user" \notin fresh) =>
          LET us == OfRole(messages', "user")
          IN /\ Len(us) = Len(OfRole(messages, "user"))
             /\ us # <<>> /\ us[Len(us)].content = m.input
    ]_vars

\* C13: a fragment that is empty or only whitespace adds no message of its
\* speaker, and no handled server content changes or removes a message that
\* is already in the transcript.
C13_BlankFragmentIgnored ==
  [][ \A c \in ConnIds, m \in ServerContents :
        OnServerContent(c, m) =>
          /\ Len(messages') >= Len(messages)
          /\ SubSeq(messages', 1, Len(messages)) = messages
          /\ (m.hasInput /\ Len(Trim(m.input)) = 0) =>
                OfRole(messages', "user") = OfRole(messages, "user")
          /\ (m.hasOutput /\ Len(Trim(m.output)) = 0) =>
                OfRole(messages', "assistant") = OfRole(messages, "assistant")
    ]_vars

\* only blank model-speech fragments were delivered: the phase is SPEAKING
\* and the transcript holds the user's message alone
C13_Witness ==
  /\ currentState = "SPEAKING"
  /\ lastOutputTranscription = <<>>
  /\ Len(messages) = 1 /\ messages[1].role = "user"

\* C14: the first non-empty fragment of a speaker after a turn-complete
\* (or after the session opened) adds a message of that speaker carrying
\* the fragment, whatever its text.
C14_NewUtteranceNewMessage ==
  [][ \A c \in ConnIds, m \in ServerContents, r \in Speakers :
        (OnServerContent(c, m) /\ r \in HeardIn(m) /\ r \in fresh) =>
          Len(OfRole(messages', r)) = Len(OfRole(messages, r)) + 1
    ]_vars

ScenarioStage ==
  IF NoConnectionYet THEN 0
  ELSE IF \E c \in ConnIds : conn[c] = "connecting" THEN 1
  ELSE IF NoRequestYet THEN 2
  ELSE IF BatchInFlight THEN 3
  ELSE IF lastOutputTranscription = <<>> THEN 4
  ELSE IF "assistant" \notin fresh THEN 5
  ELSE IF listenTimers > 0 THEN 6
  ELSE 7

ModelSpeech ==
  { m \in SpokenContents : m.hasOutput /\ ~m.hasInput /\ ~m.turnComplete }

TurnComplete == { m \in TurnSignals : m.turnComplete }

NextScenario ==
  \/ McpConnected
  \/ NoConnectionYet /\ ClickStart(TRUE)
  \/ \E c \in ConnIds : OnOpen(c)
  \/ \E c \in ConnIds : OnSetupComplete(c)
  \/ \E c \in ConnIds : AudioStreamObtained(c)
  \/ \E c \in ConnIds : AudioWorkletStarted(c)
  \/ \E c \in ConnIds, req \in Requests : ScenarioStage = 2 /\ OnToolCall(c, req)
  \/ \E b \in BatchIds, o \in CallToolOutcomes : ToolCallSettles(b, o, FALSE)
  \/ \E c \in ConnIds, m \in ModelSpeech :
       ScenarioStage \in {4, 5} /\ OnServerContent(c, m) /\ NotesTurn(m) /\ UNCHANGED <<playLog, heard>>
  \/ \E c \in ConnIds, m \in TurnComplete :
       ScenarioStage = 5 /\ OnServerContent(c, m) /\ NotesTurn(m) /\ UNCHANGED <<playLog, heard>>
  \/ ListenTimerFires

SpecScenario == Init /\ [][NextScenario]_vars

\* the phase the exchange is in at each stage of the sequence; the return
\* to LISTENING after the turn-complete is the one the timer performs
ExpectedPhase(stage) ==
  CASE stage \in {0, 1} -> "IDLE"
    [] stage = 2 -> "LISTENING"
    [] stage = 3 -> "PROCESSING"
    [] stage = 4 -> "LISTENING"
    [] stage \in {5, 6} -> "SPEAKING"
    [] OTHER -> "LISTENING"

McpQuiet == ~mcpConnecting /\ mcpRetryTimers = 0 /\ ~mcpReconnectTimer

C18_OneClient == openClients <= 1

\* the positions of a step in a trace of endConversation
At(trace, step) == { i \in DOMAIN trace : trace[i] = step }

Markers == {"audioStreamEnd", "audioStreamEnd throws"}

\* C19: a call of endConversation sends the audioStreamEnd marker exactly
\* when a session exists and the socket is open, then stops the audio
\* pipeline, then closes the session when there is one, also when sending
\* the marker throws; on return the session handle is null, isConnected is
\* false, the socket flags are cleared and the phase is IDLE.
C19_EndInOrder ==
  [][ (ClickEnd \/ (isConnected /\ \E v \in Voices : SetVoice(v))) =>
        LET t     == endTrace'
            marks == { i \in DOMAIN t : t[i] \in Markers }
        IN /\ Cardinality(At(t, "stopAudioStreaming")) = 1
           /\ Cardinality(marks) = IF session # 0 /\ isWebSocketOpen THEN 1 ELSE 0
           /\ Cardinality(At(t, "close")) = IF session # 0 THEN 1 ELSE 0
           /\ \A i \in marks, j \in At(t, "stopAudioStreaming") : i < j
           /\ \A j \in At(t, "stopAudioStreaming"), k \in At(t, "close") : j < k
           /\ session' = 0 /\ ~isConnected' /\ currentState' = "IDLE"
           /\ ~isWebSocketOpen' /\ ~isSetupComplete'
           /\ worklet' = 0 /\ ~mediaStream' /\ ~audioCtx'
    ]_vars

\* endConversation returned although sending the marker threw: the pipeline
\* was stopped and the session closed all the same
C19_Witness ==
  /\ endTrace = <<"audioStreamEnd throws", "stopAudioStreaming", "close">>
  /\ session = 0 /\ ~isConnected /\ currentState = "IDLE"
  /\ \E c \in ConnIds : conn[c] = "closing"

\* C20: a transport close or a transport error clears the session handle
\* and isConnected, and a transport error sets the CONNECTION error.
C20_CloseClearsSession ==
  [][ \A c \in ConnIds :
        (OnClose(c) \/ OnError(c)) =>
          /\ session' = 0
          /\ ~isConnected'
          /\ OnError(c) => error' = "CONNECTION"
    ]_vars

\* C21: setVoice(v) on a connected hook ends the session and schedules a
\* start, and the session that start opens is configured with the voice
\* chosen; setVoice(v) on a hook that is not connected opens no session.
C21_RestartUsesVoice ==
  [][ /\ \A v \in Voices :
           SetVoice(v) =>
             IF isConnected
               THEN /\ session' = 0 /\ ~isConnected' /\ currentVoice' = v
                    /\ restartTimers' = restartTimers + 1
               ELSE /\ conn' = conn /\ restartTimers' = restartTimers
                    /\ session' = session
      /\ \A g \in BOOLEAN :
           (RestartTimerFires(g) /\ conn' # conn) =>
             \E c \in ConnIds : /\ conn[c] = "none" /\ conn'[c] = "connecting"
                                /\ closure'[c].voice = currentVoice
    ]_vars

\* the message the loop body appends once executeToolCall settled for the
\* current function call of batch b: the first one a ToolCallSettles step adds
SettledNote(b) == messages'[Len(messages) + 1]

\* C22: an invocation whose tool call fails (callTool rejects, or the
\* server answers with an error) adds a tool-error message for that tool to
\* the transcript, and no tool-result message.
C22_FailureAddsToolError ==
  [][ \A b \in BatchIds, o \in CallToolOutcomes, t \in BOOLEAN :
        (ToolCallSettles(b, o, t) /\ (o.rejects \/ o.error)) =>
          /\ SettledNote(b).type = "tool-error"
          /\ SettledNote(b).toolName = batch[b].calls[batch[b].idx].name
          /\ \A i \in (Len(messages) + 1)..Len(messages') :
                messages'[i].type # "tool-result"
    ]_vars

\* the key names of the opaque object callTool resolves with
OpaqueKeys == <<"value">>

\* C23: the tool-result message of an invocation that succeeded with a
\* list of k >= 1 records without recognised key fields says k records
\* found; for an empty list it says no data found; for an opaque object it
\* shows the object's key names.
C23_ResultSummarised ==
  [][ \A b \in BatchIds, o \in CallToolOutcomes, t \in BOOLEAN :
        (ToolCallSettles(b, o, t) /\ ~InvocationThrows(o)) =>
          /\ SettledNote(b).type = "tool-result"
          /\ o.content >= 1 =>
                SettledNote(b).content =
                  Summary("registro(s) encontrado(s)", o.content, <<>>, FALSE)
          /\ o.content = 0 =>
                SettledNote(b).content = Summary("No se encontraron datos", 0, <<>>, FALSE)
          /\ (o.content < 0 /\ o.result = "absent") =>
                SettledNote(b).content = Summary("Datos", 0, OpaqueKeys, FALSE)
    ]_vars

\* the tool messages of the transcript, in order
SystemMessages == SelectSeq(messages, LAMBDA x : x.role = "system")

\* C24: the invocations of a batch run one after another in the order of
\* the request, and the transcript gains for each, in that order, its
\* tool-start message and then exactly one tool-result or tool-error
\* message, before the tool-start message of the next.
C24_BatchInOrder ==
  \A b \in BatchIds :
    batch[b].st \in {"running", "done"} =>
      LET sm == SystemMessages
          n  == IF batch[b].st = "running" THEN 2 * batch[b].idx - 1
                ELSE 2 * Len(batch[b].calls)
      IN /\ Len(sm) = n
         /\ Len(batch[b].responses) = n \div 2
         /\ \A i \in 1..n :
              /\ sm[i].toolName = batch[b].calls[(i + 1) \div 2].name
              /\ IF i % 2 = 1 THEN sm[i].type = "tool-start"
                 ELSE sm[i].type \in {"tool-result", "tool-error"}

\* a request of two function calls was worked off: four tool messages
C24_Witness ==
  \E b \in BatchIds :
    /\ batch[b].st = "done" /\ Len(batch[b].calls) = 2
    /\ Len(SystemMessages) = 4
    /\ SystemMessages[3].toolName = batch[b].calls[2].name

\* the entries of the playback history that are frames, as positions
FramesAt == { i \in DOMAIN playLog : playLog[i].kind = "frame" }

\* no interruption lies between positions i and j of the history
SameRun(i, j) == \A k \in i..j : playLog[k].kind = "frame"

\* C25: an interruption stops and removes every scheduled playback source
\* and resets the next-start watermark, so that the first frame received
\* after it is scheduled at the current playback time.
C25_InterruptionClearsPlayback ==
  [][ \A c \in ConnIds, m \in AudioContents :
        OnServerContent(c, m) =>
          /\ m.interrupted => (outputSources' = {} /\ nextStartTime' = 0)
          /\ \A i \in DOMAIN playLog' :
               (i > 1 /\ playLog'[i].kind = "frame" /\ playLog'[i - 1].kind = "interrupted") =>
                 playLog'[i].start = playLog'[i].at
    ]_vars

\* a frame that was still to play was interrupted, and the frame received
\* after the interruption is scheduled at the playback time of its arrival
C25_Witness ==
  \E i \in DOMAIN playLog :
    /\ i + 2 \in DOMAIN playLog
    /\ playLog[i].kind = "frame" /\ playLog[i + 1].kind = "interrupted"
    /\ playLog[i].end > playLog[i + 1].at
    /\ playLog[i + 2].kind = "frame"
    /\ playLog[i + 2].start = playLog[i + 2].at /\ playLog[i + 2].at > 0
    /\ [start |-> playLog[i + 2].start, end |-> playLog[i + 2].end] \in outputSources

\* C26: a message that carries an interruption and nothing else leaves the
\* phase, the transcript and the return-to-listening timers as they are.
C26_InterruptionKeepsPhase ==
  [][ \A c \in ConnIds, m \in AudioContents :
        (OnServerContent(c, m) /\ m.interrupted /\ m.audio = <<>>) =>
          /\ currentState' = currentState
          /\ messages' = messages
          /\ listenTimers' = listenTimers
    ]_vars

\* the model was speaking, its playback was interrupted, and the phase is
\* still SPEAKING
C26_Witness ==
  /\ currentState = "SPEAKING"
  /\ playLog # <<>> /\ playLog[Len(playLog)].kind = "interrupted"
  /\ Len(playLog) > 1 /\ playLog[Len(playLog) - 1].kind = "frame"
  /\ outputSources = {} /\ nextStartTime = 0

\* C27: the frames scheduled between two interruptions never overlap, and
\* each starts at the end of the frame before it or, when that has passed,
\* at the playback time of its arrival; the watermark is the end of the
\* last frame scheduled.
C27_BackToBack ==
  /\ \A i, j \in FramesAt :
       (i < j /\ SameRun(i, j)) => playLog[i].end <= playLog[j].start
  /\ \A j \in FramesAt :
       playLog[j].start =
         IF j > 1 /\ playLog[j - 1].kind = "frame"
           THEN Max(playLog[j - 1].end, playLog[j].at)
           ELSE playLog[j].at
  /\ (audioCtx /\ playLog # <<>> /\ playLog[Len(playLog)].kind = "frame") =>
       /\ nextStartTime >= playLog[Len(playLog)].end
       /\ nextStartTime <= Max(playLog[Len(playLog)].end, now)
  /\ \A s, t \in outputSources : s # t => (s.end <= t.start \/ t.end <= s.start)

\* a frame arrived while the one before it was still to play and was queued
\* right behind it, and a later one arrived after a pause
C27_Witness ==
  \E i \in FramesAt :
    /\ i + 2 \in FramesAt /\ SameRun(i, i + 2)
    /\ playLog[i + 1].at < playLog[i].end
    /\ playLog[i + 1].start = playLog[i].end
    /\ playLog[i + 2].at > playLog[i + 1].end
    /\ playLog[i + 2].start = playLog[i + 2].at

\* a precondition of startConversation fails: the client was not
\* initialised, the gateway is not connected, or the microphone is denied
PreconditionFails(micGranted) == ~aiClient \/ ~mcpIsConnected \/ ~micGranted

\* the error kind of the first precondition that fails
FailureKind(micGranted) ==
  IF ~aiClient THEN "API" ELSE IF ~mcpIsConnected THEN "CONNECTION" ELSE "AUDIO"

\* C28: a call of startConversation whose precondition fails opens no live
\* session, leaves the phase IDLE, sets the error of that precondition (API,
\* CONNECTION or AUDIO) and schedules no retry.
C28_PreconditionFailure ==
  [][ \A g \in BOOLEAN :
        ((ClickStart(g) \/ RestartTimerFires(g)) /\ PreconditionFails(g)) =>
          /\ conn' = conn /\ session' = session /\ ~isConnected'
          /\ currentState' = "IDLE"
          /\ error' = FailureKind(g)
          /\ restartTimers' <= restartTimers
    ]_vars

\* the words by which an error says that the transport is gone
GoneWords == {"CLOSING", "CLOSED", "connection", "WebSocket"}

\* C29: when sendRealtimeInput throws for a captured frame and the message
\* of the error contains CLOSING, CLOSED, connection or WebSocket, the audio
\* pipeline is stopped: the worklet node, the microphone stream and the
\* audio contexts are dropped.
C29_SendFailureStopsPipeline ==
  [][ \A c \in ConnIds, out \in SendOutcomes :
        (OnAudioData(c, out) /\ out.throws
           /\ \E w \in GoneWords : Includes(out.message, w)) =>
          /\ worklet' = 0 /\ ~mediaStream' /\ ~audioCtx'
          /\ outputSources' = {}
    ]_vars

\* a frame of a running pipeline was pushed into a transport that was gone
\* before onclose or onerror said so, the send threw "connection lost", and
\* the pipeline is stopped
C29_Witness ==
  /\ lastFrame.conn # 0 /\ ~lastFrame.stopped
  /\ lastFrame.threw /\ lastFrame.message = <<"connection", "lost">>
  /\ conn[lastFrame.conn] = "open" /\ session = lastFrame.conn
  /\ worklet = 0 /\ ~mediaStream /\ ~audioCtx

\* C30: when live.connect fails, startConversation sets the CONNECTION
\* error and the phase IDLE, stores no session handle, and starts no other
\* attempt: no connection is opened and no restart is scheduled.
C30_ConnectFailure ==
  [][ \A c \in ConnIds :
        ConnectFails(c) =>
          /\ error' = "CONNECTION"
          /\ currentState' = "IDLE"
          /\ session' = session /\ session' # c
          /\ isConnected' = isConnected
          /\ \A d \in ConnIds \ {c} : conn'[d] = conn[d]
          /\ conn'[c] = "failed"
          /\ restartTimers' = restartTimers
    ]_vars

\* the only connection attempt failed: CONNECTION error, IDLE, no session,
\* nothing pending
C30_Witness ==
  /\ \E c \in ConnIds : conn[c] = "failed"
  /\ \A c \in ConnIds : conn[c] \in {"failed", "none"}
  /\ error = "CONNECTION" /\ currentState = "IDLE"
  /\ session = 0 /\ ~isConnected /\ restartTimers = 0

\* C31: the messages of the transcript have pairwise distinct ids, also
\* when several of them are created within the same millisecond.
C31_DistinctIds ==
  \A i, j \in DOMAIN messages : i # j => messages[i].id # messages[j].id

\* C32: processMcpToolsResponse returns the well-formed entries of the
\* response's tools array, in their order, each as name, description and
\* inputSchema; it returns the empty list when there is no tools array or the
\* array is empty, and malformed entries are left out without an error.
WellFormed(e) ==
  /\ e.kind = "object"
  /\ e.name.kind = "string" /\ e.description.kind = "string"
  /\ e.inputSchema.kind = "object" /\ e.inputSchema.type.kind = "string"

\* the index of the k-th well-formed entry of the list
KthWellFormed(items, k) ==
  CHOOSE i \in DOMAIN items :
    /\ WellFormed(items[i])
    /\ Cardinality({ j \in 1..i : WellFormed(items[j]) }) = k

C32_DiscoveredTools ==
  discovered.status # "pending" =>
    /\ discovered.status = "returned"
    /\ LET items == IF toolsResponse.kind = "object" /\ toolsResponse.tools.kind = "array"
                      THEN toolsResponse.tools.items ELSE <<>>
           good  == { i \in DOMAIN items : WellFormed(items[i]) }
       IN /\ Len(discovered.tools) = Cardinality(good)
          /\ \A k \in DOMAIN discovered.tools :
               LET e == items[KthWellFormed(items, k)]
               IN /\ discovered.tools[k].name = e.name
                  /\ discovered.tools[k].description = e.description
                  /\ discovered.tools[k].inputSchema = e.inputSchema

\* a malformed entry between two well-formed ones was dropped
C32_Witness ==
  /\ discovered.status = "returned"
  /\ toolsResponse.tools.kind = "array"
  /\ Len(toolsResponse.tools.items) = 3
  /\ WellFormed(toolsResponse.tools.items[1])
  /\ ~WellFormed(toolsResponse.tools.items[2])
  /\ WellFormed(toolsResponse.tools.items[3])
  /\ Len(discovered.tools) = 2

\* C33: a fragment whose text equals the last fragment of the same speaker
\* that was added in this conversation adds no message, and the first
\* non-empty fragment of each speaker in a conversation adds one.
AddsMessage(r, text) ==
  /\ Len(messages') = Len(messages) + 1
  /\ messages'[Len(messages')].role = r
  /\ messages'[Len(messages')].content = text
  /\ SubSeq(messages', 1, Len(messages)) = messages

C33_Deduplication ==
  [][ \A c \in ConnIds, m \in SpeechFragments, r \in Speakers :
        OnServerContent(c, m) =>
          /\ (r \in HeardIn(m) /\ heard[c][r].any /\ FragmentOf(m, r) = heard[c][r].last)
                => messages' = messages
          /\ (r \in HeardIn(m) /\ ~heard[c][r].any) => AddsMessage(r, FragmentOf(m, r)) ]_vars

\* C34: when the transport of a session has reported an error, a close, or
\* both, stopAudioStreaming has been called exactly once by that session's
\* callbacks.
C34_StoppedOnce ==
  \A c \in ConnIds : conn[c] \in {"errored", "closed"} => stops[c] = 1

\* C35: while a tool-call batch is in flight on an open session the phase
\* is not LISTENING.
C35_NoListeningInBatch ==
  \A b \in BatchIds :
    (batch[b].st = "running" /\ conn[batch[b].conn] = "open") => currentState # "LISTENING"

\* C36: isProcessingTool is true whenever some tool-call batch has been
\* received and has not finished, also when batches overlap.
C36_FlagWhileInFlight == BatchInFlight => isProcessingTool

\* C37: the transcript is append-only: whatever happens, the messages it
\* held before are still there afterwards, in the same order and unchanged.
C37_AppendOnly ==
  [][ /\ Len(messages') >= Len(messages)
      /\ SubSeq(messages', 1, Len(messages)) = messages ]_vars

\* a transcript with speech, tool and typed messages that went through the
\* end of one conversation and the start of the next
C37_Witness ==
  /\ Len(messages) >= 3
  /\ \E i \in DOMAIN messages : messages[i].role = "system"
  /\ \E i \in DOMAIN messages : messages[i].id[1] = ""
  /\ \E i \in DOMAIN messages : messages[i].id[1] \in {"input", "output"}
  /\ batch[1].conn = 1 /\ batch[1].st = "done"
  /\ conn[1] = "closed" /\ conn[2] = "open" /\ session = 2

\* C38: a call of sendMessage made when there is no session handle or
\* isConnected is false leaves the transcript, the phase and the error as
\* they were and sends nothing to the transport.
C38_SendWhenNotReady ==
  [][ \A text \in Texts, t \in BOOLEAN :
        (sendMessage(text, t) /\ (session = 0 \/ ~isConnected)) =>
          /\ messages' = messages
          /\ currentState' = currentState
          /\ error' = error
          /\ ~sends'[Len(sends')].sent ]_vars

\* sendMessage was called after the transport had closed: the session
\* handle was still held and isConnected was false
C38_Witness ==
  /\ sends # <<>>
  /\ ~sends[Len(sends)].ready
  /\ session # 0 /\ ~isConnected

====
